---- MODULE Spec2Model ----
(***************************************************************************)
(* Model of spreadflow_confviz.ConfvizCommand.run: the level-of-detail     *)
(* reduction of a flow graph of ports grouped into port collections.       *)
(*                                                                         *)
(* One behaviour is one invocation of run().  The initial state holds the  *)
(* evaluated configuration (the port collections with their ins and outs,  *)
(* the connections and the requested level); the actions are the           *)
(* consecutive blocks of run().                                            *)
(*                                                                         *)
(* A directed graph (the dict vertex -> set of vertices used throughout    *)
(* run) is represented by its set of arcs <<tail, head>>; a key of the     *)
(* dict exists exactly when the vertex has an arc leaving it.              *)
(***************************************************************************)
EXTENDS Integers, Sequences, FiniteSets

\* Largest number of connections of a configuration.
MaxEdges == 2
\* Largest value passed as --level.
MaxLevel == 3

\* Instances of PortCollection and plain components of the configuration.
Collections == {"A", "B", "C"}
Leaves == {"p1", "p2", "p3"}
Nodes == Collections \cup Leaves
\* Python's None, which run() records as the child of every plain component.
None == "None"
\* Components that are connected: plain components and the collection B,
\* which then lists itself among its own ports.
Endpoints == Leaves \cup {"B"}

VARIABLES ins, outs, connections, arg_level, pc, level, parents, levels,
          g, ignorable_comps, subgraphs, dg_clusters, dg_edges, dg_nodes

vars == <<ins, outs, connections, arg_level, pc, level, parents, levels,
          g, ignorable_comps, subgraphs, dg_clusters, dg_edges, dg_nodes>>

is_port_collection(c) == c \in Collections

Min(a, b) == IF a <= b THEN a ELSE b

(***************************************************************************)
(* spreadflow_core.graph and toposort                                      *)
(***************************************************************************)
digraph(arcs) == arcs

reverse(gr) == {<<e[2], e[1]>> : e \in gr}

vertices(gr) == {e[1] : e \in gr} \cup {e[2] : e \in gr}

\* g.get(v, set())
Succ(gr, v) == {e[2] : e \in {a \in gr : a[1] = v}}

\* Remove every vertex of gr in removed, one at a time, connecting each of
\* its predecessors with each of its successors; a pair p = s is skipped.
RECURSIVE contract(_, _)
contract(gr, removed) ==
    LET todo == vertices(gr) \cap removed
    IN  IF todo = {} THEN gr
        ELSE LET r == CHOOSE x \in todo : TRUE
                 P == Succ(reverse(gr), r) \ {r}
                 S == Succ(gr, r) \ {r}
                 rest == {e \in gr : e[1] # r /\ e[2] # r}
                 added == {e \in P \X S : e[1] # e[2]}
             IN  contract(rest \cup added, removed)

\* toposort(data): data maps an item to the set of items it depends on; the
\* result is the list of sets of items whose dependencies are all in earlier
\* sets.  Items that occur only as a dependency depend on nothing.
RECURSIVE ToposortLoop(_, _)
ToposortLoop(data, items) ==
    LET ordered == {i \in items :
                      \A e \in data : e[1] = i => (e[2] = i \/ e[2] \notin items)}
    IN  IF ordered = {} THEN << >>
        ELSE <<ordered>> \o ToposortLoop(data, items \ ordered)

toposort(data) == ToposortLoop(data, vertices(data))

(***************************************************************************)
(* The configuration                                                       *)
(***************************************************************************)
\* The collections a component may be a port of.
ParentChoices(n) ==
    CASE n = "A" -> {{}}
      [] n = "B" -> {{}, {"A"}}
      [] n = "C" -> {{}, {"A"}, {"B"}}
      [] n = "p1" -> {{}, {"B"}}
      [] n = "p2" -> {{}, {"B"}}
      [] n = "p3" -> {{}, {"C"}, {"B", "C"}}

\* portmap(connection_ops).items(): every output port is connected to one
\* input port.
ConnectionChoices ==
    {c \in SUBSET (Endpoints \X Endpoints) :
        /\ Cardinality(c) <= MaxEdges
        /\ \A e1, e2 \in c : e1[1] = e2[1] => e1 = e2}

IsSource(conns, n) == \E e \in conns : e[1] = n
IsSink(conns, n) == \E e \in conns : e[2] = n

\* comp.ins and comp.outs: a port that sends is an output port, a port that
\* receives or is not connected is an input port; a connected collection is
\* a port of itself.
InsOf(par, conns, c) ==
    {n \in Nodes \ {c} : c \in par[n] /\ (IsSink(conns, n) \/ ~IsSource(conns, n))}
        \cup {n \in {c} : IsSink(conns, c)}

OutsOf(par, conns, c) ==
    {n \in Nodes \ {c} : c \in par[n] /\ IsSource(conns, n)}
        \cup {n \in {c} : IsSource(conns, c)}

\* comp.ins and comp.outs of every collection, for the chosen parents of the
\* five components below A.
PortsOf(pB, pC, p1, p2, p3, conns, attr) ==
    LET par == [n \in Nodes |->
                  CASE n = "A" -> {}
                    [] n = "B" -> pB
                    [] n = "C" -> pC
                    [] n = "p1" -> p1
                    [] n = "p2" -> p2
                    [] n = "p3" -> p3]
    IN  [c \in Collections |->
            IF attr = "ins" THEN InsOf(par, conns, c) ELSE OutsOf(par, conns, c)]

Init ==
    /\ \E pB \in ParentChoices("B"), pC \in ParentChoices("C"),
          p1 \in ParentChoices("p1"), p2 \in ParentChoices("p2"),
          p3 \in ParentChoices("p3"), conns \in ConnectionChoices :
         /\ connections = conns
         /\ ins = PortsOf(pB, pC, p1, p2, p3, conns, "ins")
         /\ outs = PortsOf(pB, pC, p1, p2, p3, conns, "outs")
    /\ arg_level \in 0..MaxLevel
    /\ level = arg_level
    /\ pc = "start"
    /\ parents = {}
    /\ levels = << >>
    /\ g = {}
    /\ ignorable_comps = {}
    /\ subgraphs = {}
    /\ dg_clusters = [k \in {} |-> {}]
    /\ dg_edges = {}
    /\ dg_nodes = {}

(***************************************************************************)
(* run()                                                                   *)
(***************************************************************************)
\* set(ins + outs)
visible_ports == vertices(connections)

\* The collections that list n among their ports, n itself excepted.
InputParents(n) == {c \in Collections : n \in (ins[c] \cup outs[c]) \ {c}}

\* The components that are a port of a collection or have a port.
Linked == {n \in Nodes : InputParents(n) # {} \/ \E m \in Nodes : n \in InputParents(m)}

\* list(token_attr_map(component_ops, 'element')): the components of the
\* configuration are those that are connected, have a port or are a port.
components == visible_ports \cup Linked

\* outs, ins = zip(*connections) raises ValueError when there is no
\* connection: two names cannot be unpacked from an empty sequence.
Extract ==
    /\ pc = "start"
    /\ pc' = IF connections = {} THEN "error" ELSE "extracted"
    /\ UNCHANGED <<ins, outs, connections, arg_level, level, parents, levels,
                   g, ignorable_comps, subgraphs, dg_clusters, dg_edges, dg_nodes>>

\* comp_tree with every pair the wrong way round: (subcomp, comp).
comp_tree_reversed ==
    UNION {IF is_port_collection(comp)
             THEN {<<subcomp, comp>> : subcomp \in (ins[comp] \cup outs[comp]) \ {comp}}
             ELSE {<<None, comp>>} : comp \in visible_ports \cup components}

\* Build up parent-child relationships.
comp_tree ==
    UNION {IF is_port_collection(comp)
             THEN {<<comp, subcomp>> : subcomp \in (ins[comp] \cup outs[comp]) \ {comp}}
             ELSE {<<comp, None>>} : comp \in visible_ports \cup components}

\* self.level = min(self.level, len(levels))
ClampLevel(lvl, lvls) == Min(lvl, Len(lvls))

BuildLevels ==
    /\ pc = "extracted"
    /\ LET children == digraph(comp_tree)
           pars == reverse(children)
           lvls == toposort(pars)
       IN  /\ parents' = pars
           /\ levels' = lvls
           /\ level' = ClampLevel(level, lvls)
    /\ pc' = "leveled"
    /\ UNCHANGED <<ins, outs, connections, arg_level,
                   g, ignorable_comps, subgraphs, dg_clusters, dg_edges, dg_nodes>>

\* levels[i] of the Python list (indexed from 0), empty past its end.
LevelAt(lvls, i) == IF i >= 0 /\ i < Len(lvls) THEN lvls[i + 1] ELSE {}

\* Pretend that components at the specified level are fully connected.
ExtraLinks(lvls, lvl) ==
    UNION {{e \in ins[comp] \X outs[comp] : e[1] # e[2]} :
              comp \in {c \in LevelAt(lvls, lvl) : is_port_collection(c)}}

\* The flow graph: graph.digraph(connections + extra_links).
FlowGraph(conns, lvls, lvl) == digraph(conns \cup ExtraLinks(lvls, lvl))

\* parents.get(comp, default): the set of parents when comp is a key of
\* parents, and the default ([] or None) when it is not.
ParentsGet(pars, comp, default) ==
    IF Succ(pars, comp) # {} THEN [kind |-> "set", val |-> Succ(pars, comp)]
    ELSE [kind |-> default, val |-> {}]

\* IgnorablePeers looking at the level above the specified one.
IgnorablePeers_LevelAbove(gr, pars, lvls, lvl) ==
    {comp \in LevelAt(lvls, lvl - 1) :
        /\ ~is_port_collection(comp)
        /\ \A peer \in Succ(gr, comp) \cup Succ(reverse(gr), comp) :
              ParentsGet(pars, comp, "list") = ParentsGet(pars, peer, "None")}

\* Ports at the specified level all of whose peers have the same parent.
IgnorablePeers(gr, pars, lvls, lvl) ==
    {comp \in LevelAt(lvls, lvl) :
        /\ ~is_port_collection(comp)
        /\ \A peer \in Succ(gr, comp) \cup Succ(reverse(gr), comp) :
              ParentsGet(pars, comp, "list") = ParentsGet(pars, peer, "None")}

\* IgnorableBeyond starting one level too deep: levels[self.level+2:].
IgnorableBeyond_OneTooDeep(lvls, lvl) ==
    UNION {lvls[i] : i \in (lvl + 3)..Len(lvls)}

\* Everything which is beyond the specified level: levels[self.level+1:].
IgnorableBeyond(lvls, lvl) ==
    UNION {lvls[i] : i \in (lvl + 2)..Len(lvls)}

\* IgnorableComps without the levels beyond the specified one.
IgnorableComps_PeersOnly(gr, pars, lvls, lvl) ==
    IgnorablePeers(gr, pars, lvls, lvl)

IgnorableComps(gr, pars, lvls, lvl) ==
    IgnorablePeers(gr, pars, lvls, lvl) \cup IgnorableBeyond(lvls, lvl)

\* Lines 119-155 as a function of the connections: the completed flow graph
\* contracted to the vertices that are not ignorable.
Contracted(conns, pars, lvls, lvl) ==
    LET gr == FlowGraph(conns, lvls, lvl)
    IN  contract(gr, IgnorableComps(gr, pars, lvls, lvl))

Contract ==
    /\ pc = "leveled"
    /\ ignorable_comps' =
          IgnorableComps(FlowGraph(connections, levels, level), parents, levels, level)
    /\ g' = Contracted(connections, parents, levels, level)
    /\ pc' = "contracted"
    /\ UNCHANGED <<ins, outs, connections, arg_level, level, parents, levels,
                   subgraphs, dg_clusters, dg_edges, dg_nodes>>

\* The cluster of collection c, given the clusters sg (a function from
\* collections to clusters) that are not yet placed in another cluster.
Cluster(c, ports, sg) ==
    [nodes |-> ports \ ignorable_comps, subs |-> ports \cap DOMAIN sg]

\* for c in level: the collections cs of one level, one after the other.
\* st.sg is the dict subgraphs, st.all every cluster created so far.
RECURSIVE ClustersOfLevel(_, _)
ClustersOfLevel(cs, st) ==
    IF cs = {} THEN st
    ELSE LET c == CHOOSE x \in cs : TRUE
             ports == (ins[c] \cup outs[c]) \cap visible_ports
             new == Cluster(c, ports, st.sg)
             kept == DOMAIN st.sg \ new.subs
         IN  IF ports = {} THEN ClustersOfLevel(cs \ {c}, st)
             ELSE ClustersOfLevel(cs \ {c},
                    [sg |-> [k \in kept \cup {c} |-> IF k = c THEN new ELSE st.sg[k]],
                     all |-> [k \in DOMAIN st.all \cup {c} |->
                                 IF k = c THEN new ELSE st.all[k]]])

\* for level in reversed(levels[:self.level]): levels i-1, ..., 0.
RECURSIVE BuildClusters(_, _)
BuildClusters(i, st) ==
    IF i = 0 THEN st
    ELSE BuildClusters(i - 1,
            ClustersOfLevel({c \in LevelAt(levels, i - 1) : is_port_collection(c)}, st))

EmptyFunction == [k \in {} |-> {}]

\* The vertices of the contracted graph that lost every arc: whether
\* graph.contract keeps such a vertex as a key with an empty set of heads,
\* and graph.vertices(g) then returns it, is not fixed by run().
Dangling ==
    (vertices(FlowGraph(connections, levels, level)) \ ignorable_comps) \ vertices(g)

Render ==
    /\ pc = "contracted"
    /\ LET st == BuildClusters(level, [sg |-> EmptyFunction, all |-> EmptyFunction])
       IN  /\ subgraphs' = DOMAIN st.sg
           /\ dg_clusters' = st.all
           /\ dg_edges' = g
           /\ \E keys \in {{}, Dangling} :
                 dg_nodes' = vertices(g) \cup keys
                               \cup UNION {st.all[c].nodes : c \in DOMAIN st.all}
    /\ pc' = "done"
    /\ UNCHANGED <<ins, outs, connections, arg_level, level, parents, levels,
                   g, ignorable_comps>>

Next == Extract \/ BuildLevels \/ Contract \/ Render

Spec == Init /\ [][Next]_vars

(***************************************************************************)
(* The hierarchy as the configuration states it                            *)
(***************************************************************************)
\* Every component has at most one parent.
IsForest == \A n \in Nodes : Cardinality(InputParents(n)) <= 1

MaxOf(S) == CHOOSE x \in S : \A y \in S : y <= x

\* The number of parent hops from n up to a root.
RECURSIVE InputDepth(_)
InputDepth(n) ==
    IF InputParents(n) = {} THEN 0
    ELSE 1 + MaxOf({InputDepth(q) : q \in InputParents(n)})

MaxDepth == MaxOf({InputDepth(n) : n \in components})

\* The index of the level run() puts n in, -1 when it is in none.
LevelOf(n) ==
    IF \E i \in 1..Len(levels) : n \in levels[i]
    THEN (CHOOSE i \in 1..Len(levels) : n \in levels[i]) - 1
    ELSE -1

Leveled == pc \in {"leveled", "contracted", "done"}

\* The vertices a contracted graph is left with.
Survivors == dg_nodes \cup vertices(dg_edges)

(***************************************************************************)
(* Claims                                                                  *)
(***************************************************************************)

\* C7: with no connection at all the run completes without an error and
\* returns an output with no cluster and no edge.
C7_EmptyInputCompletes ==
    connections = {} => pc # "error"

\* C8: when a port is listed by two different collections the run aborts
\* before any level is computed.
C8_TwoParentsAbort ==
    (\E n \in Nodes : Cardinality(InputParents(n)) >= 2) => ~Leveled

\* Whether run() levels component n as the hierarchy says: in some level, in
\* levels[0] when it has no parent, one level below each of its parents.
LeveledByParent(n) ==
    /\ LevelOf(n) >= 0
    /\ InputParents(n) = {} => LevelOf(n) = 0
    /\ \A q \in InputParents(n) : LevelOf(n) = LevelOf(q) + 1

C2_NothingBeyondLevel ==
    pc = "done" =>
        \A n \in Survivors :
            /\ InputDepth(n) <= arg_level
            /\ arg_level = 0 => InputParents(n) = {}

\* Level 0 of a forest at least two levels deep shows an edge between two
\* roots that are connected through a port two levels down.
C2_Witness ==
    /\ pc = "done" /\ arg_level = 0
    /\ \E e \in dg_edges : e[1] # e[2] /\ e \notin connections
    /\ \E n \in visible_ports : InputDepth(n) >= 2

\* C3 as stated: a requested level at or past the deepest level of the forest
\* leaves the connections as they are (here for connections none of which
\* joins a port to itself).
C3_AtMaxDepthUnchanged ==
    (pc = "done" /\ arg_level >= MaxDepth /\ \A e \in connections : e[1] # e[2])
        => dg_edges = connections

\* C3 (amended): a requested level strictly past the deepest level of the
\* forest (clamped to the number of levels when it is larger) leaves the
\* connections as they are: no edge is added, none is removed.
C3_PastMaxDepthUnchanged ==
    (pc = "done" /\ arg_level > MaxDepth) => dg_edges = connections

\* A level past the deepest one was requested for a configuration that
\* connects two ports of the same collection and has a collection at its
\* deepest level.
C3_Witness ==
    /\ pc = "done" /\ arg_level > MaxDepth
    /\ \E e \in connections :
          /\ e[1] # e[2]
          /\ InputParents(e[1]) # {}
          /\ InputParents(e[1]) = InputParents(e[2])
          /\ InputDepth(e[1]) = MaxDepth
    /\ dg_edges # {}

\* The components of depth d on the way from n up to its roots.
RECURSIVE AncestorsAt(_, _)
AncestorsAt(n, d) ==
    IF InputDepth(n) = d THEN {n}
    ELSE UNION {AncestorsAt(q, d) : q \in InputParents(n)}

\* The forest A -> {B, C}, B -> {p1, p2}, C -> {p3} with the one connection
\* p1 -> p3.
Scenario ==
    /\ ins["A"] \cup outs["A"] = {"B", "C"}
    /\ ins["B"] \cup outs["B"] = {"p1", "p2"}
    /\ ins["C"] \cup outs["C"] = {"p3"}
    /\ connections = {<<"p1", "p3">>}

RECURSIVE ReachedVia(_, _, _)
ReachedVia(gr, via, from) ==
    LET more == from \cup UNION {Succ(gr, v) : v \in from \cap via}
    IN  IF more = from THEN from ELSE ReachedVia(gr, via, more)

BoundaryLeaves == {n \in LevelAt(levels, level) \cap Nodes : ~is_port_collection(n)}

\* The predecessors and successors of n in the graph before contraction.
Neighbours(n) ==
    LET gr == FlowGraph(connections, levels, level)
    IN  Succ(gr, n) \cup Succ(reverse(gr), n)

\* C4: a plain component at the boundary level is absent from the contracted
\* graph exactly when each of its neighbours has the same parent as itself,
\* a root with no parent included (here for connections none of which joins a
\* port to itself).
C4_ElidedIffSameParent ==
    (pc = "done" /\ \A e \in connections : e[1] # e[2]) =>
        \A n \in BoundaryLeaves :
            (n \notin vertices(FlowGraph(connections, levels, level)) \ ignorable_comps)
                <=> \A peer \in Neighbours(n) : InputParents(peer) = InputParents(n)

\* C5: no emitted edge has the same source and sink.
C5_NoSelfEdge ==
    pc = "done" => \A e \in dg_edges : e[1] # e[2]

\* Whether the cluster of c holds a node, or a cluster that does.
RECURSIVE HasVisibleContent(_)
HasVisibleContent(c) ==
    \/ dg_clusters[c].nodes # {}
    \/ \E sub \in dg_clusters[c].subs : HasVisibleContent(sub)

\* C9: every emitted cluster holds a visible node or a nested cluster with
\* visible content (here for connections none of which joins a port to
\* itself).
C9_NoEmptyCluster ==
    (pc = "done" /\ \A e \in connections : e[1] # e[2]) => \A c \in DOMAIN dg_clusters : HasVisibleContent(c)

\* C10: running lines 119-155 again on the emitted edges, with the same
\* hierarchy and level, gives the emitted edges (here for connections none of
\* which joins a port to itself).
C10_Idempotent ==
    (pc = "done" /\ \A e \in connections : e[1] # e[2]) =>
        Contracted(dg_edges, parents, levels, level) = dg_edges

====
